---- MODULE Spec2Model ----
(***************************************************************************)
(* Model of event_model/documents/generate/typeddict_to_schema.py: the     *)
(* TypedDict -> pydantic model -> JSON schema generator.                   *)
(*                                                                         *)
(* JSON values are tagged records  [t, a, c]:                              *)
(*   t  the Python type of the value: "str" "int" "bool" "dict" "list"     *)
(*   a  the atom of a scalar, a sequence of tokens (a string is the        *)
(*      sequence of its characters/words, "NL" standing for a line break)  *)
(*   c  the children: for a dict the sequence of [k, v] items in insertion *)
(*      order (Python dicts are ordered), for a list the items (k = "")    *)
(***************************************************************************)
EXTENDS Integers, Sequences, FiniteSets, TLC

VARIABLES
    annotations,            \* __annotations__ of every TypedDict
    regex,                  \* the regex attribute of every FieldInfo object
    new_basemodel_classes,  \* the default-argument dict of parse_typeddict_to_schema
    models,                 \* the BaseModel classes it refers to
    created,                \* wrapper models made by parse_AsRef, per reference name
    extra_schema,           \* type_wrapper.extra_schema: TypedDict -> fragment
    files,                  \* the schema files of the output directory, by title
    declared,               \* history: annotations and regex at module load
    last,                   \* history: the last top-level call and its outcome
    rets,                   \* history: sort and result of the last call per doc
    ncalls,                 \* number of top-level calls made
    fn,         \* pure-function harness: which function was applied
    arg1,       \* its first argument
    arg2,       \* its second argument (merge_dicts only)
    ret         \* its return value

gvars == <<annotations, regex, new_basemodel_classes, models, created,
           extra_schema, files, declared, last, rets, ncalls>>
pvars == <<fn, arg1, arg2, ret>>
vars  == <<gvars, pvars>>

----------------------------------------------------------------------------
(* JSON values *)

JStr(s)   == [t |-> "str",  a |-> s, c |-> <<>>]
JInt(n)   == [t |-> "int",  a |-> <<n>>, c |-> <<>>]    \* n a numeral, "0" "1" ...
JBool(b)  == [t |-> "bool", a |-> <<b>>, c |-> <<>>]    \* b "True" or "False"
JDict(kv) == [t |-> "dict", a |-> <<>>, c |-> kv]
JList(vs) == [t |-> "list", a |-> <<>>, c |-> [i \in 1..Len(vs) |-> [k |-> "", v |-> vs[i]]]]
KV(key, val) == [k |-> key, v |-> val]
NoValue  == [t |-> "none", a |-> <<>>, c |-> <<>>]
\* a dict from a sequence of keys and a sequence of values
MkDict(ks, vs) == JDict([i \in 1..Len(ks) |-> KV(ks[i], vs[i])])

Keys(d)   == [i \in 1..Len(d.c) |-> d.c[i].k]
KeySet(d) == {d.c[i].k : i \in 1..Len(d.c)}
Has(d, key) == key \in KeySet(d)
Get(d, key) == IF Has(d, key)
               THEN d.c[CHOOSE i \in 1..Len(d.c) : d.c[i].k = key].v
               ELSE NoValue
\* d[key] = val : an existing key keeps its position, a new key is appended
Put(d, key, val) ==
    IF Has(d, key)
    THEN [d EXCEPT !.c = [i \in 1..Len(d.c) |->
                             IF d.c[i].k = key THEN KV(key, val) ELSE d.c[i]]]
    ELSE [d EXCEPT !.c = Append(d.c, KV(key, val))]

\* isinstance(v1, type(v2)): bool is a subclass of int
IsInstanceOfTypeOf(v1, v2) ==
    \/ v1.t = v2.t
    \/ (v1.t = "bool" /\ v2.t = "int")

----------------------------------------------------------------------------
(* merge_dicts *)

\* mutant: two dicts under one key are not merged, dict1's replaces dict2's
MergeBranch_Dict1Wins(inDict2, v1, v2) ==
    IF ~inDict2 THEN "new_key"
    ELSE IF ~IsInstanceOfTypeOf(v1, v2) \/ v1.t = "dict" THEN "mismatch"
    ELSE IF v1.t = "list" THEN "concat"
    ELSE "fall_through"

\* which branch of the if/elif chain a key of dict1 takes; when no branch
\* matches, return_dict keeps the value copied from dict2
MergeBranch(inDict2, v1, v2) ==
    IF ~inDict2 THEN "new_key"
    ELSE IF ~IsInstanceOfTypeOf(v1, v2) THEN "mismatch"
    ELSE IF v1.t = "dict" THEN "recurse"
    ELSE IF v1.t = "list" THEN "concat"
    ELSE "fall_through"

\* dict1[key] + dict2[key]
ConcatLists(v1, v2) == [v1 EXCEPT !.c = v1.c \o v2.c]

RECURSIVE merge_dicts(_, _), MergeLoop(_, _, _, _)

\* the "for key in dict1" loop from item i on, return_dict being acc
MergeLoop(dict1, dict2, acc, i) ==
    IF i > Len(dict1.c) THEN acc
    ELSE LET key == dict1.c[i].k
             v1  == dict1.c[i].v
             v2  == Get(dict2, key)
             br  == MergeBranch(Has(dict2, key), v1, v2)
             nxt == CASE br = "new_key"  -> Put(acc, key, v1)
                      [] br = "mismatch" -> Put(acc, key, v1)
                      [] br = "recurse"  -> Put(acc, key, merge_dicts(v1, v2))
                      [] br = "concat"   -> Put(acc, key, ConcatLists(v1, v2))
                      [] OTHER           -> acc
         IN MergeLoop(dict1, dict2, nxt, i + 1)

\* return_dict = dict2.copy(), then the loop
merge_dicts(dict1, dict2) == MergeLoop(dict1, dict2, dict2, 1)

----------------------------------------------------------------------------
(* strip_newline_literal *)

\* str.replace("\n", " ")
ReplaceNewline(s) == [i \in 1..Len(s) |-> IF s[i] = "NL" THEN " " ELSE s[i]]

RECURSIVE strip_newline_literal(_)
strip_newline_literal(schema) ==
    [schema EXCEPT !.c = [i \in 1..Len(schema.c) |->
        LET key == schema.c[i].k
            val == schema.c[i].v
        IN IF val.t = "dict" THEN KV(key, strip_newline_literal(val))
           ELSE IF key = "description"
                THEN KV(key, [val EXCEPT !.a = ReplaceNewline(val.a)])
           ELSE schema.c[i]]]

----------------------------------------------------------------------------
(* sort_jsonschema *)

\* the keys the model uses, in the order Python's string comparison gives
Alphabet == <<"$ref", "a", "additionalProperties", "allOf", "anyOf", "b",
              "datum", "datum_page", "definitions", "description", "enum",
              "items", "pattern", "patternProperties", "properties",
              "required", "title", "type", "x", "x1", "x2", "x3", "y1", "y2",
              "y3", "z", "z1", "z2", "z3">>
Rank(key) == CHOOSE i \in 1..Len(Alphabet) : Alphabet[i] = key

\* sorted(items, key=lambda x: x[0]) : stable insertion sort on the key
RECURSIVE InsertItem(_, _), SortedItems(_)
InsertItem(item, s) ==
    IF s = <<>> THEN <<item>>
    ELSE IF Rank(item.k) < Rank(Head(s).k) THEN <<item>> \o s
    ELSE <<Head(s)>> \o InsertItem(item, Tail(s))
SortedItems(s) ==
    IF s = <<>> THEN <<>>
    ELSE InsertItem(s[Len(s)], SortedItems(SubSeq(s, 1, Len(s) - 1)))

RECURSIVE sort_jsonschema(_)
sort_jsonschema(schema) ==
    [schema EXCEPT !.c = [i \in 1..Len(schema.c) |->
        LET key == schema.c[i].k
            val == schema.c[i].v
        IN IF key = "properties"
           THEN KV(key, [val EXCEPT !.c = SortedItems(val.c)])
           ELSE IF val.t = "dict" THEN KV(key, sort_jsonschema(val))
           ELSE schema.c[i]]]

----------------------------------------------------------------------------
(* Document-type declarations *)

\* the TypedDicts handed to generate_all_schema, in its order (the first two
\* of the ten), and a TypedDict that only occurs nested inside them
TopDocs   == <<"DatumPage", "Datum">>
NestedDoc == "DataKey"
AllDocs   == {TopDocs[i] : i \in 1..Len(TopDocs)} \cup {NestedDoc}
RefNames  == {"DataType"}
CacheKeys == AllDocs \cup RefNames

\* the field names of each TypedDict, in declaration order
FieldNames(doc) == CASE doc = "DatumPage" -> <<"b", "a">>
                     [] doc = "Datum"     -> <<"a">>
                     [] OTHER             -> <<"x">>

\* types: a base type, a TypedDict class, or a generated BaseModel class
\* (models[id]); opt marks Optional[...]
BaseT(n)      == [opt |-> FALSE, kind |-> "base", name |-> n, id |-> 0]
TypedDictT(n) == [opt |-> FALSE, kind |-> "typeddict", name |-> n, id |-> 0]
NoType        == [opt |-> FALSE, kind |-> "none", name |-> "", id |-> 0]

\* the FieldInfo object of a field's Field(...) call
FieldInfoOf(doc, fname) == <<doc, fname>>
FieldInfos == UNION {{FieldInfoOf(doc, FieldNames(doc)[i]) :
                          i \in 1..Len(FieldNames(doc))} : doc \in AllDocs}

\* a declared annotation [NotRequired[] Annotated[types..., AsRef(ref), Field]]:
\*   nr     the origin is NotRequired
\*   types  the Annotated args that are no annotation elements
\*   ref    the name of the AsRef arg, "none" without one
\*   fi     the FieldInfo arg
Annotation(nr, types, ref, fi) == [nr |-> nr, types |-> types, ref |-> ref, fi |-> fi]

\* the declarations a field can carry, d = [nr, ref, regex, base]:
\* [NotRequired[] Annotated[base, [AsRef(ref),] Field(regex=regex)]]
Decl(nr, ref, re, base) == [nr |-> nr, ref |-> ref, regex |-> re, base |-> base]
\* DatumPage.b
TopDecls ==
    { Decl(FALSE, "none", "none", "str"),
      Decl(TRUE, "none", "none", "str"),
      Decl(FALSE, "none", "p", "str"),
      Decl(TRUE, "none", "none", "DataKey"),
      Decl(FALSE, "DataType", "p", "str"),
      Decl(TRUE, "DataType", "none", "str"),
      Decl(FALSE, "DataType", "none", "int"),
      Decl(FALSE, "DataType", "none", "DataKey"),
      Decl(FALSE, "none", "none", "str+int") }    \* two candidate base types
\* DatumPage.a
SecondDecls ==
    { Decl(TRUE, "DataType", "p", "str"),
      Decl(FALSE, "none", "none", "DataKey") }
\* Datum.a
DatumDecls ==
    { Decl(TRUE, "none", "none", "str"),
      Decl(FALSE, "DataType", "none", "int"),
      Decl(FALSE, "DataType", "none", "str") }
\* DataKey.x
NestedDecls ==
    { Decl(FALSE, "none", "none", "str"),
      Decl(TRUE, "DataType", "p", "str") }

DeclTypes(d) == CASE d.base = "DataKey" -> <<TypedDictT("DataKey")>>
                  [] d.base = "str+int" -> <<BaseT("str"), BaseT("int")>>
                  [] OTHER              -> <<BaseT(d.base)>>

\* __annotations__ of a TypedDict whose fields are declared by the sequence ds
DeclAnnotations(doc, ds) ==
    [i \in 1..Len(FieldNames(doc)) |->
        [name |-> FieldNames(doc)[i],
         an   |-> Annotation(ds[i].nr, DeclTypes(ds[i]), ds[i].ref,
                             FieldInfoOf(doc, FieldNames(doc)[i]))]]

\* __doc__ of a TypedDict
DocString(doc) ==
    CASE doc = "Datum" -> <<"Document to reference a quanta of externally-stored data">>
      [] doc = "DatumPage" -> <<"Page of documents to reference a quanta of",
                                "NL", "externally-stored data">>
      [] OTHER -> <<"Describes the objects in the data property", "NL",
                    "of Event documents">>

\* Field(description=...)
Description(fi) == <<"Field", fi[2], "of", fi[1]>>

----------------------------------------------------------------------------
(* Config.alias_generator: re.sub(r"(?<!^)(?=[A-Z])", "_", s).lower() *)

Letters(name) ==
    CASE name = "DatumPage" -> <<"D", "a", "t", "u", "m", "P", "a", "g", "e">>
      [] name = "Datum"     -> <<"D", "a", "t", "u", "m">>
      [] name = "DataKey"   -> <<"D", "a", "t", "a", "K", "e", "y">>
      [] OTHER              -> <<name>>
Lower(ch) == CASE ch = "D" -> "d" [] ch = "P" -> "p" [] ch = "K" -> "k" [] OTHER -> ch
IsUpper(ch) == Lower(ch) # ch

RECURSIVE Flatten(_)
Flatten(ss) == IF ss = <<>> THEN <<>> ELSE Head(ss) \o Flatten(Tail(ss))

alias_generator(letters) ==
    Flatten([i \in 1..Len(letters) |->
                IF i > 1 /\ IsUpper(letters[i])
                THEN <<"_", Lower(letters[i])>>
                ELSE <<Lower(letters[i])>>])

----------------------------------------------------------------------------
(* The annotation normalizer.  The operators thread the heap h through:     *)
(*   ann     __annotations__ of every TypedDict                             *)
(*   regex   the regex attribute of every FieldInfo object                  *)
(*   cache   new_basemodel_classes: name -> index in models, 0 = absent     *)
(*   entered   the names in new_basemodel_classes when the running          *)
(*             top-level call began                                         *)
(*   stale     the names a top-level call found there when it began         *)
(*   observed  the names of entered that a lookup found                     *)
(*   models  the BaseModel classes made by create_model and kept            *)
(*   created how many wrapper models parse_AsRef made, per reference name   *)
(*   err     the exception raised so far, "" when none                      *)

NoModel == [name |-> "", kind |-> "none", root |-> NoType, regex |-> "none",
            fields |-> <<>>]

field_is_not_required(an, remove_origin_if_NotRequired) ==
    [an |-> IF an.nr /\ remove_origin_if_NotRequired
            THEN [an EXCEPT !.nr = FALSE] ELSE an,
     is_not_required |-> an.nr]

get_annotation_contents(an) == [as_ref |-> an.ref, field_info |-> an.fi]

\* mutant: the optional field's type is left unwrapped
OptionalOf_Unwrapped(ty) == ty

\* Optional[ty]
OptionalOf(ty) == [ty EXCEPT !.opt = TRUE]

\* mutant: the converted arg is returned without its origin
RebuildGeneric_DropsOrigin(ty, arg) == [arg EXCEPT !.opt = FALSE]

\* origin[args...] of a type with origin and args: Optional[arg] rebuilt
\* around the converted arg
RebuildGeneric(ty, arg) == [arg EXCEPT !.opt = ty.opt]

\* mutant: the pattern is cleared whether or not the field has an AsRef
RegexAfterParse_Always(h, fi, as_ref) == [h EXCEPT !.regex[fi] = "none"]

\* field_info.regex = None, done when the field has an AsRef
RegexAfterParse(h, fi, as_ref) ==
    IF as_ref # "none" THEN [h EXCEPT !.regex[fi] = "none"] ELSE h

\* mutant: a cached wrapper is reused without comparing the types
AsRefBranch_NoTypeCheck(h, ty, ref) ==
    IF h.cache[ref] = 0 THEN "create"
    ELSE IF h.models[h.cache[ref]].kind # "wrapper" THEN "KeyError"
    ELSE "reuse"

\* the wrapper lookup of parse_AsRef: "create" a model, "reuse" the cached
\* one, or fail
AsRefBranch(h, ty, ref) ==
    IF h.cache[ref] = 0 THEN "create"
    ELSE IF h.models[h.cache[ref]].kind # "wrapper" THEN "KeyError"
    ELSE IF ty = h.models[h.cache[ref]].root THEN "reuse"
    ELSE "conflict"

parse_AsRef(h, ty, fi, ref) ==
    LET ref_regex == h.regex[fi]
        br        == AsRefBranch(h, ty, ref)
        newid     == Len(h.models) + 1
    IN CASE br = "create" ->
              [h  |-> [h EXCEPT
                         !.models = Append(@, [name |-> ref, kind |-> "wrapper",
                                               root |-> ty, regex |-> ref_regex,
                                               fields |-> <<>>]),
                         !.cache[ref] = newid,
                         !.created[ref] = @ + 1],
               ty |-> [opt |-> FALSE, kind |-> "model", name |-> ref, id |-> newid]]
         [] br = "reuse" ->
              [h  |-> [h EXCEPT !.observed = @ \cup ({ref} \cap h.entered)],
               ty |-> [opt |-> FALSE, kind |-> "model", name |-> ref,
                       id |-> h.cache[ref]]]
         [] OTHER -> [h |-> [h EXCEPT !.err = br,
                                       !.observed = @ \cup ({ref} \cap h.entered)], ty |-> ty]

RECURSIVE format_all_annotations(_, _), FormatLoop(_, _, _, _),
          FormatNext(_, _, _, _, _), field_parser(_, _, _),
          get_field_type(_, _, _), change_sub_typed_dicts_to_basemodels(_, _),
          BuildModel(_, _)

\* new_basemodel_classes[field_type.__name__] = field_type, for the model r
\* that the recursive parse_typeddict_to_schema returned
CacheBuiltModel(ty, r) ==
    IF r.h.err # "" THEN [h |-> r.h, ty |-> ty]
    ELSE [h  |-> [r.h EXCEPT !.models = Append(@, r.model),
                             !.cache[ty.name] = Len(r.h.models) + 1],
          ty |-> [ty EXCEPT !.kind = "model", !.id = Len(r.h.models) + 1]]

\* origin[...] around the converted arg r
RebuiltAround(ty, r) == [h |-> r.h, ty |-> RebuildGeneric(ty, r.ty)]

change_sub_typed_dicts_to_basemodels(h, ty) ==
    IF ty.kind = "typeddict" /\ ~ty.opt
    THEN IF h.cache[ty.name] = 0
         THEN CacheBuiltModel(ty, BuildModel(h, ty.name))
         ELSE [h  |-> [h EXCEPT !.observed = @ \cup ({ty.name} \cap h.entered)],
               ty |-> [ty EXCEPT !.kind = "model", !.id = h.cache[ty.name]]]
    ELSE IF ty.opt
         THEN RebuiltAround(ty, change_sub_typed_dicts_to_basemodels(
                                    h, [ty EXCEPT !.opt = FALSE]))
    ELSE [h |-> h, ty |-> ty]

get_field_type(h, field_name, an) ==
    IF Len(an.types) # 1
    THEN [h |-> [h EXCEPT !.err = "multiple types"], ty |-> NoType]
    ELSE change_sub_typed_dicts_to_basemodels(h, an.types[1])

\* the end of field_parser, ar = [h, ty] being the state and the type after
\* the AsRef step: clear the regex, wrap in Optional, build the annotation
FieldParserReturn(is_not_required, as_ref, field_info, ar) ==
    [h  |-> IF ar.h.err = "" THEN RegexAfterParse(ar.h, field_info, as_ref) ELSE ar.h,
     an |-> Annotation(FALSE,
                       <<IF is_not_required THEN OptionalOf(ar.ty) ELSE ar.ty>>,
                       "none", field_info)]

\* the AsRef step of field_parser, ft = [h, ty] being what get_field_type gave
FieldParserAsRef(is_not_required, as_ref, field_info, ft) ==
    FieldParserReturn(is_not_required, as_ref, field_info,
                      IF ft.h.err = "" /\ as_ref # "none"
                      THEN parse_AsRef(ft.h, ft.ty, field_info, as_ref)
                      ELSE ft)

field_parser(h, field_name, field_type) ==
    FieldParserAsRef(
        field_is_not_required(field_type, TRUE).is_not_required,
        get_annotation_contents(field_is_not_required(field_type, TRUE).an).as_ref,
        get_annotation_contents(field_is_not_required(field_type, TRUE).an).field_info,
        get_field_type(h, field_name, field_is_not_required(field_type, TRUE).an))

\* new_annotations[field_name] = r.an for the i-th field, then the next field
FormatNext(h, doc, new_annotations, i, r) ==
    FormatLoop(r.h, doc,
               Append(new_annotations, [name |-> h.ann[doc][i].name, an |-> r.an]),
               i + 1)

\* the loop over typed_dict.__annotations__ from field i on
FormatLoop(h, doc, new_annotations, i) ==
    IF h.err # "" THEN h
    ELSE IF i > Len(h.ann[doc])
         THEN [h EXCEPT !.ann[doc] = new_annotations]
    ELSE FormatNext(h, doc, new_annotations, i,
                    field_parser(h, h.ann[doc][i].name, h.ann[doc][i].an))

format_all_annotations(h, doc) == FormatLoop(h, doc, <<>>, 1)

\* create_model(typed_dict.__name__, ...) from the formatted annotations of
\* h1: the model copies each field's type and FieldInfo
CreateModel(h1, doc) ==
    IF h1.err # "" THEN [h |-> h1, model |-> NoModel]
    ELSE [h |-> h1,
          model |-> [name |-> doc, kind |-> "doc", root |-> NoType,
                     regex |-> "none",
                     fields |-> [i \in 1..Len(h1.ann[doc]) |->
                         [name  |-> h1.ann[doc][i].name,
                          ty    |-> h1.ann[doc][i].an.types[1],
                          regex |-> h1.regex[h1.ann[doc][i].an.fi],
                          description |-> Description(h1.ann[doc][i].an.fi)]]]]

\* parse_typeddict_to_schema up to "return model"
BuildModel(h, doc) == CreateModel(format_all_annotations(h, doc), doc)

----------------------------------------------------------------------------
(* model.schema(by_alias=True): the schema pydantic renders from a model.   *)
(* A field is required unless its type is Optional: the default "..." that  *)
(* create_model is given does not reach a field declared through Annotated. *)

JsonType(ty) == IF ty.name = "int" THEN JStr(<<"integer">>) ELSE JStr(<<"string">>)
RefTo(name)  == MkDict(<<"$ref">>, <<JStr(<<"#/definitions/", name>>)>>)

FieldSchema(f) ==
    LET head == <<KV("title", JStr(<<f.name>>)), KV("description", JStr(f.description))>>
    IN IF f.ty.kind = "model"
       THEN JDict(head \o <<KV("allOf", JList(<<RefTo(f.ty.name)>>))>>)
       ELSE JDict(head \o <<KV("type", JsonType(f.ty))>>
                       \o (IF f.regex = "none" THEN <<>>
                           ELSE <<KV("pattern", JStr(<<f.regex>>))>>))

IsRequired(f) == ~f.ty.opt

RequiredNames(fields) ==
    LET req == SelectSeq(fields, IsRequired)
    IN [i \in 1..Len(req) |-> JStr(<<req[i].name>>)]

\* the schema of one model without its definitions
ModelSchema(m, title) ==
    IF m.kind = "wrapper"
    THEN IF m.root.kind = "model"
         THEN JDict(<<KV("title", JStr(title))>> \o RefTo(m.root.name).c)
         ELSE JDict(<<KV("title", JStr(title)), KV("type", JsonType(m.root))>>
                       \o (IF m.regex = "none" THEN <<>>
                           ELSE <<KV("pattern", JStr(<<m.regex>>))>>))
    ELSE JDict(<<KV("title", JStr(title)),
                 KV("description", JStr(DocString(m.name))),
                 KV("type", JStr(<<"object">>)),
                 KV("properties",
                    JDict([i \in 1..Len(m.fields) |->
                              KV(m.fields[i].name, FieldSchema(m.fields[i]))]))>>
               \o (IF RequiredNames(m.fields) = <<>> THEN <<>>
                   ELSE <<KV("required", JList(RequiredNames(m.fields)))>>))

RECURSIVE DefinitionsOfType(_, _, _), DefinitionsOfFields(_, _, _, _)
\* acc with the definitions a type brings: those of the models it refers to,
\* nested ones first
DefinitionsOfType(acc, ty, ms) ==
    IF ty.kind # "model" THEN acc
    ELSE LET m     == ms[ty.id]
             inner == IF m.kind = "wrapper" THEN DefinitionsOfType(acc, m.root, ms)
                      ELSE DefinitionsOfFields(acc, m.fields, ms, 1)
         IN Put(inner, m.name, ModelSchema(m, <<m.name>>))
DefinitionsOfFields(acc, fields, ms, i) ==
    IF i > Len(fields) THEN acc
    ELSE DefinitionsOfFields(DefinitionsOfType(acc, fields[i].ty, ms), fields, ms, i + 1)

\* the schema body with its "definitions", when there are any
WithDefinitions(body, defs) ==
    IF defs.c = <<>> THEN body ELSE Put(body, "definitions", defs)

RenderSchema(m, title, ms) ==
    WithDefinitions(ModelSchema(m, title),
                    DefinitionsOfFields(JDict(<<>>), m.fields, ms, 1))

----------------------------------------------------------------------------
(* parse_typeddict_to_schema and generate_all_schema *)

RECURSIVE SortThroughAliases(_, _)
\* merge_dicts puts the values of dict1 themselves (not copies) into its
\* result, so the in-place sort_jsonschema of the merged schema also reorders
\* the parts of the fragment dict1 it reaches: dict1 after that sort
SortThroughAliases(dict1, dict2) ==
    [dict1 EXCEPT !.c = [i \in 1..Len(dict1.c) |->
        LET key == dict1.c[i].k
            v1  == dict1.c[i].v
            v2  == Get(dict2, key)
            br  == MergeBranch(Has(dict2, key), v1, v2)
        IN IF key = "properties" THEN dict1.c[i]
           ELSE IF br \in {"new_key", "mismatch"} /\ v1.t = "dict"
                THEN KV(key, sort_jsonschema(v1))
           ELSE IF br = "recurse" THEN KV(key, SortThroughAliases(v1, v2))
           ELSE dict1.c[i]]]

\* the file name stem: model_schema["title"]
TitleOf(doc) == alias_generator(Letters(doc))
Titles == {TitleOf(TopDocs[i]) : i \in 1..Len(TopDocs)}

\* the end of parse_typeddict_to_schema: json.dump when out_dir is given, and
\* the return
WriteAndReturn(h, extra, written, doc, out, model_schema) ==
    [g |-> [h |-> h, extra |-> extra,
            files |-> IF out THEN [written EXCEPT ![TitleOf(doc)] = model_schema]
                      ELSE written],
     ret |-> model_schema, err |-> "",
     wrote |-> IF out THEN {TitleOf(doc)} ELSE {}]

\* the merge and the sort of parse_typeddict_to_schema, model_schema being
\* the stripped schema of the model
MergeAndSort(g, h, doc, out, sort, model_schema) ==
    IF g.extra[doc] = NoValue
    THEN WriteAndReturn(h, g.extra, g.files, doc, out,
                        IF sort THEN sort_jsonschema(model_schema) ELSE model_schema)
    ELSE WriteAndReturn(h,
                        IF sort
                        THEN [g.extra EXCEPT
                                ![doc] = SortThroughAliases(g.extra[doc], model_schema)]
                        ELSE g.extra,
                        g.files, doc, out,
                        IF sort
                        THEN sort_jsonschema(merge_dicts(g.extra[doc], model_schema))
                        ELSE merge_dicts(g.extra[doc], model_schema))

\* a top-level call leaves new_basemodel_classes to its default, the dict
\* object made once when the function was defined: the call begins with the
\* entries that earlier calls put into it
DefaultCache(h) ==
    [h EXCEPT !.entered = {n \in CacheKeys : h.cache[n] # 0},
              !.stale = @ \cup {n \in CacheKeys : h.cache[n] # 0}]

\* parse_typeddict_to_schema from create_model on, r being the model built:
\* an exception of the normalizer leaves the state changes made before it
RenderBuilt(g, doc, out, sort, r) ==
    IF r.h.err # ""
    THEN [g |-> [g EXCEPT !.h = [r.h EXCEPT !.err = ""]],
          ret |-> NoValue, err |-> r.h.err, wrote |-> {}]
    ELSE MergeAndSort(g, r.h, doc, out, sort,
                      strip_newline_literal(
                          RenderSchema(r.model, TitleOf(doc), r.h.models)))

\* a top-level call parse_typeddict_to_schema(doc, out_dir, sort=sort) on the
\* program state g = [h, extra, files]; out says whether out_dir is given.
\* The result carries the new state, the returned schema and the exception.
parse_typeddict_to_schema(g, doc, out, sort) ==
    RenderBuilt(g, doc, out, sort, BuildModel(DefaultCache(g.h), doc))

\* mutant: the run goes on after an exception
StopRun_Never(err) == FALSE

\* an exception raised by a call ends the run
StopRun(err) == err # ""

RECURSIVE GenerateLoop(_, _, _, _, _), GenerateNext(_, _, _, _, _)

\* the run after its i-th call returned r
GenerateNext(wrote, i, err, failed, r) ==
    GenerateLoop(r.g, wrote \cup r.wrote, i + 1,
                 IF err = "" THEN r.err ELSE err,
                 IF err = "" /\ r.err # "" THEN i ELSE failed)

\* the calls of generate_all_schema from the i-th on; wrote are the files
\* written so far, err the exception raised and failed the call that raised it
GenerateLoop(g, wrote, i, err, failed) ==
    IF i > Len(TopDocs) \/ StopRun(err)
    THEN [g |-> g, err |-> err, wrote |-> wrote, failed |-> failed]
    ELSE GenerateNext(wrote, i, err, failed,
                      parse_typeddict_to_schema(g, TopDocs[i], TRUE, TRUE))

generate_all_schema(g) == GenerateLoop(g, {}, 1, "", 0)

----------------------------------------------------------------------------
(* Inputs of the pure functions *)

L12 == JList(<<JInt("1"), JInt("2")>>)
L34 == JList(<<JInt("3"), JInt("4")>>)

\* the example of the merge_dicts docstring
DocDict1 == MkDict(<<"x1", "x2", "x3">>,
              <<MkDict(<<"y1", "y3">>,
                       <<JInt("0"), MkDict(<<"z1", "z2">>, <<L12, JInt("1")>>)>>),
                JInt("0"), JInt("1")>>)
DocDict2 == MkDict(<<"x1", "x3">>,
              <<MkDict(<<"y2", "y3">>,
                       <<JInt("0"), MkDict(<<"z1", "z3">>, <<L34, JInt("5")>>)>>),
                JInt("0")>>)

\* a hand-authored fragment and a generated schema
EnumFragment == MkDict(<<"properties">>,
                  <<MkDict(<<"a">>, <<MkDict(<<"enum">>, <<L12>>)>>)>>)
TypedSchema  == MkDict(<<"properties">>,
                  <<MkDict(<<"a", "b">>,
                      <<MkDict(<<"type">>, <<JStr(<<"integer">>)>>),
                        MkDict(<<"type">>, <<JStr(<<"string">>)>>)>>)>>)

MergeValues ==
    { JInt("0"), JInt("1"), JBool("True"), JStr(<<"s">>), L12, L34,
      MkDict(<<"y1">>, <<JInt("0")>>),
      MkDict(<<"y2", "y1">>, <<JInt("0"), L34>>),
      Get(DocDict1, "x1"), Get(DocDict2, "x1") }

\* dicts over the keys x1, x3, in both insertion orders
MergeDicts ==
    { MkDict(<<>>, <<>>) }
    \cup { MkDict(<<key>>, <<v>>) : key \in {"x1", "x3"}, v \in MergeValues }
    \cup { MkDict(<<"x1", "x3">>, <<v, w>>) : v \in MergeValues, w \in MergeValues }
    \cup { MkDict(<<"x3", "x1">>, <<v, JInt("1")>>) : v \in MergeValues }
    \cup { DocDict1, DocDict2, EnumFragment, TypedSchema }

\* description strings, with and without line breaks
Descriptions == { <<"a">>, <<"a", "NL", "b">>, <<"NL">>, <<"a", "NL", "NL", "b">> }

\* a schema with a description at the top, one inside a property, and
\* (optionally) some inside the items of an anyOf list of that property
StripSchema(top, inner, alts) ==
    MkDict(<<"title", "description", "properties">>,
       <<JStr(<<"t">>), JStr(top),
         MkDict(<<"a">>,
            <<IF alts = <<>>
              THEN MkDict(<<"description", "type">>, <<JStr(inner), JStr(<<"string">>)>>)
              ELSE MkDict(<<"description", "anyOf">>,
                     <<JStr(inner),
                       JList([i \in 1..Len(alts) |->
                                MkDict(<<"description">>, <<JStr(alts[i])>>)])>>)>>)>>)

StripInputs ==
    { StripSchema(d1, d2, <<>>) : d1 \in Descriptions, d2 \in Descriptions }
    \cup { StripSchema(d1, d2, <<d3>>) :
             d1 \in Descriptions, d2 \in Descriptions, d3 \in Descriptions }
    \* a property that is itself named "description"
    \cup { MkDict(<<"properties">>,
              <<MkDict(<<"description">>,
                  <<MkDict(<<"description">>, <<JStr(d1)>>)>>)>>) : d1 \in Descriptions }

Perms2 == { <<"z", "a">>, <<"a", "z">> }
Perms3 == { <<"z", "b", "a">>, <<"a", "b", "z">>, <<"b", "z", "a">>,
            <<"z", "a", "b">>, <<"a", "z", "b">>, <<"b", "a", "z">> }
Leaf == MkDict(<<"type">>, <<JStr(<<"string">>)>>)
LeavesFor(ks) == [i \in 1..Len(ks) |-> Leaf]

\* a schema whose top-level "properties" has keys in order ks, a model under
\* "definitions" with properties in order ds, an unrelated mapping with keys in
\* order os, and (nest) a property holding a nested "properties" in order ns
SortSchema(ks, ds, os, nest, ns) ==
    MkDict(<<"title", "properties", "definitions", "patternProperties">>,
       <<JStr(<<"t">>),
         MkDict(ks, [i \in 1..Len(ks) |->
                        IF nest /\ ks[i] = "a"
                        THEN MkDict(<<"type", "properties">>,
                               <<JStr(<<"object">>), MkDict(ns, LeavesFor(ns))>>)
                        ELSE Leaf]),
         MkDict(<<"x">>, <<MkDict(<<"type", "properties">>,
                               <<JStr(<<"object">>), MkDict(ds, LeavesFor(ds))>>)>>),
         MkDict(os, LeavesFor(os))>>)

SortInputs ==
    { SortSchema(ks, ds, os, FALSE, <<>>) :
        ks \in Perms3, ds \in Perms2, os \in Perms2 }
    \cup { SortSchema(ks, ds, os, TRUE, ns) :
        ks \in Perms3, ds \in Perms2, os \in Perms2, ns \in Perms2 }

----------------------------------------------------------------------------
(* The generator as a state machine: each step is one top-level call *)

MaxCalls == 2

\* a hand-authored fragment for DatumPage
PageFragment ==
    MkDict(<<"properties", "patternProperties", "definitions">>,
       <<MkDict(<<"a">>, <<MkDict(<<"enum">>, <<L12>>)>>),
         MkDict(<<"z", "a">>, <<Leaf, Leaf>>),
         MkDict(<<"x">>, <<MkDict(<<"properties">>,
                              <<MkDict(<<"z", "a">>, <<Leaf, Leaf>>)>>)>>)>>)

NoCall == [op |-> "none", doc |-> "", sort |-> FALSE, out |-> FALSE, err |-> "",
           ret |-> NoValue, before |-> NoValue, wrote |-> {}, failed |-> 0,
           stale |-> {}, observed |-> {},
           prevOp |-> "none", prevErr |-> "",
           prevFiles |-> [t \in Titles |-> NoValue]]

\* the program state the call operators work on
Program == [h |-> [ann |-> annotations, regex |-> regex,
                   cache |-> new_basemodel_classes, models |-> models,
                   created |-> created, err |-> "",
                   entered |-> {}, stale |-> {}, observed |-> {}],
            extra |-> extra_schema, files |-> files]

Store(g) == /\ annotations' = g.h.ann
            /\ regex' = g.h.regex
            /\ new_basemodel_classes' = g.h.cache
            /\ models' = g.h.models
            /\ created' = g.h.created
            /\ extra_schema' = g.extra
            /\ files' = g.files

InitPure == fn = "none" /\ arg1 = NoValue /\ arg2 = NoValue /\ ret = NoValue

InitDecls(dpb, dpa, da, dx) ==
    /\ annotations = [doc \in AllDocs |->
          CASE doc = "DatumPage" -> DeclAnnotations(doc, <<dpb, dpa>>)
            [] doc = "Datum"     -> DeclAnnotations(doc, <<da>>)
            [] OTHER             -> DeclAnnotations(doc, <<dx>>)]
    /\ regex = [fi \in FieldInfos |->
          CASE fi = FieldInfoOf("DatumPage", "b") -> dpb.regex
            [] fi = FieldInfoOf("DatumPage", "a") -> dpa.regex
            [] fi = FieldInfoOf("Datum", "a")     -> da.regex
            [] OTHER                              -> dx.regex]

InitRest ==
    /\ new_basemodel_classes = [n \in CacheKeys |-> 0]
    /\ models = <<>>
    /\ created = [n \in RefNames |-> 0]
    /\ files = [t \in Titles |-> NoValue]
    /\ declared = [ann |-> annotations, regex |-> regex]
    /\ last = NoCall
    /\ rets = [doc \in {TopDocs[i] : i \in 1..Len(TopDocs)} |->
                  [sort |-> FALSE, ret |-> NoValue]]
    /\ ncalls = 0

Init ==
    /\ \E dpb \in TopDecls, dpa \in SecondDecls, da \in DatumDecls, dx \in NestedDecls :
          InitDecls(dpb, dpa, da, dx)
    /\ extra_schema = [doc \in AllDocs |-> IF doc = "DatumPage" THEN PageFragment
                                           ELSE NoValue]
    /\ InitRest
    /\ InitPure

\* the state after a top-level call that gave r
Returned(r) ==
    /\ Store(r.g)
    /\ ncalls' = ncalls + 1
    /\ UNCHANGED <<declared, pvars>>

ParseReturned(doc, out, sort, r) ==
    /\ Returned(r)
    /\ last' = [op |-> "parse", doc |-> doc, sort |-> sort, out |-> out,
                err |-> r.err, ret |-> r.ret,
                before |-> IF rets[doc].sort = sort THEN rets[doc].ret ELSE NoValue,
                wrote |-> r.wrote, failed |-> 0,
                stale |-> r.g.h.stale, observed |-> r.g.h.observed,
                prevOp |-> last.op, prevErr |-> last.err, prevFiles |-> files]
    /\ rets' = [rets EXCEPT ![doc] = [sort |-> sort, ret |-> r.ret]]

GenerateReturned(r) ==
    /\ Returned(r)
    /\ last' = [op |-> "generate_all",
                doc |-> IF r.failed = 0 THEN "" ELSE TopDocs[r.failed],
                sort |-> TRUE, out |-> TRUE, err |-> r.err,
                ret |-> NoValue, before |-> NoValue, wrote |-> r.wrote,
                failed |-> r.failed,
                stale |-> r.g.h.stale, observed |-> r.g.h.observed,
                prevOp |-> last.op, prevErr |-> last.err, prevFiles |-> files]
    /\ rets' = [doc \in DOMAIN rets |->
                  IF TitleOf(doc) \in r.wrote
                  THEN [sort |-> TRUE, ret |-> r.g.files[TitleOf(doc)]]
                  ELSE IF r.failed # 0 /\ doc = TopDocs[r.failed]
                       THEN [sort |-> TRUE, ret |-> NoValue]
                  ELSE rets[doc]]

\* parse_typeddict_to_schema(doc, out_dir, sort=sort) called from outside
ParseTypedDict(doc, out, sort) ==
    /\ ncalls < MaxCalls
    /\ ParseReturned(doc, out, sort, parse_typeddict_to_schema(Program, doc, out, sort))

\* generate_all_schema(schema_out_dir)
GenerateAll ==
    /\ ncalls < MaxCalls
    /\ GenerateReturned(generate_all_schema(Program))

Next == \/ \E i \in 1..Len(TopDocs), out \in BOOLEAN, sort \in BOOLEAN :
               ParseTypedDict(TopDocs[i], out, sort)
        \/ GenerateAll

Spec == Init /\ [][Next]_vars

----------------------------------------------------------------------------
(* The pure functions, each applied once to an input *)

\* the generator is idle while a pure function is exercised
InitIdle ==
    /\ InitDecls(Decl(FALSE, "none", "none", "str"), Decl(FALSE, "none", "none", "str"),
                 Decl(FALSE, "none", "none", "str"), Decl(FALSE, "none", "none", "str"))
    /\ extra_schema = [doc \in AllDocs |-> NoValue]
    /\ InitRest

InitMerge == /\ InitIdle
             /\ fn = "none"
             /\ arg1 \in MergeDicts
             /\ arg2 \in MergeDicts
             /\ ret = NoValue

CallMerge == /\ fn = "none"
             /\ fn' = "merge_dicts"
             /\ ret' = merge_dicts(arg1, arg2)
             /\ UNCHANGED <<arg1, arg2, gvars>>

InitStrip == /\ InitIdle
             /\ fn = "none"
             /\ arg1 \in StripInputs
             /\ arg2 = NoValue
             /\ ret = NoValue

CallStrip == /\ fn = "none"
             /\ fn' = "strip_newline_literal"
             /\ ret' = strip_newline_literal(arg1)
             /\ UNCHANGED <<arg1, arg2, gvars>>

InitSort == /\ InitIdle
            /\ fn = "none"
            /\ arg1 \in SortInputs
            /\ arg2 = NoValue
            /\ ret = NoValue

CallSort == /\ fn = "none"
            /\ fn' = "sort_jsonschema"
            /\ ret' = sort_jsonschema(arg1)
            /\ UNCHANGED <<arg1, arg2, gvars>>

SpecMerge == InitMerge /\ [][CallMerge]_vars
SpecStrip == InitStrip /\ [][CallStrip]_vars
SpecSort  == InitSort /\ [][CallSort]_vars

----------------------------------------------------------------------------
(* Properties of the generator *)

TopDocSet == {TopDocs[i] : i \in 1..Len(TopDocs)}
FieldIdx(doc) == 1..Len(FieldNames(doc))
DeclaredAn(doc, i) == declared.ann[doc][i].an
CurrentAn(doc, i)  == annotations[doc][i].an

\* C1: a parse_typeddict_to_schema(D) call that follows a completed call on D
\* with the same arguments (last.before is what that call returned) returns
\* and writes the same schema document, and two consecutive
\* generate_all_schema runs leave identical files.
C1_Idempotent ==
    /\ (last.op = "parse" /\ last.err = "" /\ last.before # NoValue) =>
          /\ last.ret = last.before
          /\ last.out => files[TitleOf(last.doc)] = last.before
    /\ (last.op = "generate_all" /\ last.err = ""
          /\ last.prevOp = "generate_all" /\ last.prevErr = "") =>
          files = last.prevFiles

\* a repeated, writing call on a document type whose declaration the first
\* call has rewritten
C1_Witness ==
    /\ last.op = "parse" /\ last.err = "" /\ last.before # NoValue /\ last.out
    /\ annotations[last.doc] # declared.ann[last.doc]
    /\ \E i \in FieldIdx(last.doc) : DeclaredAn(last.doc, i).nr

\* the names in the "required" list of a schema
RequiredOf(schema) ==
    LET req == Get(schema, "required")
    IN {req.c[i].v.a[1] : i \in 1..Len(req.c)}

\* schema is the schema of doc (top-level, or the entry of "definitions")
OptionalFieldsNotRequired(doc, schema) ==
    \A i \in FieldIdx(doc) :
        /\ Has(Get(schema, "properties"), FieldNames(doc)[i])
        /\ IF DeclaredAn(doc, i).nr
           THEN /\ CurrentAn(doc, i).types[1].opt
                /\ FieldNames(doc)[i] \notin RequiredOf(schema)
           ELSE FieldNames(doc)[i] \in RequiredOf(schema)

\* every schema the generator has returned or written
GeneratedSchemas ==
    {<<doc, rets[doc].ret>> : doc \in DOMAIN rets}
    \cup {<<doc, files[TitleOf(doc)]>> : doc \in TopDocSet}
    \cup {<<last.doc, last.ret>>}

\* C2: a field marked NotRequired has its normalized type wrapped as Optional
\* and is absent from the schema's required list; a field not so marked is in
\* the required list; with or without a reference tag or a nested type.
C2_OptionalIffNotRequired ==
    \A gs \in GeneratedSchemas :
        gs[2] # NoValue =>
            /\ OptionalFieldsNotRequired(gs[1], gs[2])
            /\ Has(Get(gs[2], "definitions"), NestedDoc) =>
                  OptionalFieldsNotRequired(NestedDoc,
                                            Get(Get(gs[2], "definitions"), NestedDoc))

\* a schema of DatumPage with an optional reference-tagged field next to a
\* required nested document type whose own field is optional, generated from
\* an already rewritten declaration
C2_Witness ==
    /\ last.op = "parse" /\ last.doc = "DatumPage" /\ last.err = ""
    /\ last.before # NoValue
    /\ DeclaredAn("DatumPage", 1).nr /\ DeclaredAn("DatumPage", 1).ref # "none"
    /\ ~DeclaredAn("DatumPage", 2).nr
    /\ DeclaredAn("DatumPage", 2).types[1].kind = "typeddict"
    /\ DeclaredAn(NestedDoc, 1).nr
    /\ RequiredOf(last.ret) = {"a"}
    /\ RequiredOf(Get(Get(last.ret, "definitions"), NestedDoc)) = {}

\* the type a declared bare type has become once nested TypedDicts are models
ConvertedType(ty) ==
    IF ty.kind = "typeddict"
    THEN [ty EXCEPT !.kind = "model", !.id = new_basemodel_classes[ty.name]]
    ELSE ty

WrapperType(ref, opt) ==
    [opt |-> opt, kind |-> "model", name |-> ref, id |-> new_basemodel_classes[ref]]

\* the fields declared with reference name ref
RefFields(ref) ==
    {<<doc, i>> \in AllDocs \X (1..2) :
        i \in FieldIdx(doc) /\ DeclaredAn(doc, i).ref = ref}

\* the field's declaration has been replaced by its normalized form
IsNormalized(doc, i) == CurrentAn(doc, i).ref = "none"

\* C3: fields sharing a reference name and bare type share one wrapper model,
\* created once; a field whose bare type differs from the wrapper's is never
\* given the wrapper: generation fails with the reference-name conflict.
C3_OneWrapperPerReference ==
    \A ref \in RefNames :
        /\ created[ref] <= 1
        /\ (created[ref] = 1) = (new_basemodel_classes[ref] # 0)
        /\ \A f \in RefFields(ref) :
              IsNormalized(f[1], f[2]) =>
                  /\ new_basemodel_classes[ref] # 0
                  /\ CurrentAn(f[1], f[2]).types[1]
                        = WrapperType(ref, DeclaredAn(f[1], f[2]).nr)
                  /\ models[new_basemodel_classes[ref]].kind = "wrapper"
                  /\ models[new_basemodel_classes[ref]].root
                        = ConvertedType(DeclaredAn(f[1], f[2]).types[1])
        /\ last.err = "conflict" =>
              \E f \in RefFields(ref) :
                  /\ ~IsNormalized(f[1], f[2])
                  /\ models[new_basemodel_classes[ref]].root
                        # ConvertedType(DeclaredAn(f[1], f[2]).types[1])

\* two fields of DatumPage and one of Datum share the one wrapper
C3_Witness ==
    /\ created["DataType"] = 1
    /\ {<<"DatumPage", 1>>, <<"DatumPage", 2>>, <<"Datum", 1>>} \subseteq RefFields("DataType")
    /\ \A f \in RefFields("DataType") : IsNormalized(f[1], f[2])

\* C9 as stated: a generate_all_schema run that aborts has written no schema
\* file; a run writes the files of all document types or none.
C9_NoPartialOutput ==
    last.op = "generate_all" =>
        /\ last.err # "" => last.wrote = {}
        /\ last.wrote \in {{}, Titles}

\* C9 amended: a generate_all_schema run that aborts while processing a
\* document type has written the files of exactly the document types before
\* it in the fixed order, and has left the file of the failing type and of
\* every later type as it was; a run that does not abort writes all files.
C9_FilesBeforeFailureWritten ==
    last.op = "generate_all" =>
        /\ last.err = "" => (last.failed = 0 /\ last.wrote = Titles)
        /\ last.err # "" =>
              /\ last.failed \in 1..Len(TopDocs)
              /\ last.wrote = {TitleOf(TopDocs[j]) : j \in 1..(last.failed - 1)}
              /\ \A j \in last.failed..Len(TopDocs) :
                    files[TitleOf(TopDocs[j])] = last.prevFiles[TitleOf(TopDocs[j])]
        /\ \A t \in last.wrote : files[t] # NoValue

\* a run that aborted at the second document type after writing the first
C9_Witness ==
    /\ last.op = "generate_all" /\ last.err # "" /\ last.failed = 2
    /\ last.wrote = {TitleOf(TopDocs[1])}
    /\ files[TitleOf(TopDocs[2])] = NoValue

\* C10 as stated: after any sequence of calls every document type's field
\* annotations and every field's metadata object equal those at module load.
C10_DeclarationsUnchanged ==
    /\ annotations = declared.ann
    /\ regex = declared.regex

\* the normalized form of a declared annotation
NormalizedAn(an) ==
    Annotation(FALSE,
               <<IF an.ref # "none" THEN WrapperType(an.ref, an.nr)
                 ELSE [ConvertedType(an.types[1]) EXCEPT !.opt = an.nr]>>,
               "none", an.fi)

\* C10 amended: generation keeps every document type's field names, their
\* order and each field's metadata object; a field's annotation is either as
\* declared or the normalized form of the declaration (NotRequired replaced by
\* Optional, the reference tag by the wrapper model of that name, a nested
\* document type by its generated model); a metadata object's pattern is as
\* declared, or cleared if the field carries a reference tag.
C10_DeclarationsOnlyNormalized ==
    \A doc \in AllDocs :
        /\ Len(annotations[doc]) = Len(declared.ann[doc])
        /\ \A i \in FieldIdx(doc) :
              /\ annotations[doc][i].name = declared.ann[doc][i].name
              /\ CurrentAn(doc, i).fi = DeclaredAn(doc, i).fi
              /\ \/ CurrentAn(doc, i) = DeclaredAn(doc, i)
                 \/ /\ Len(DeclaredAn(doc, i).types) = 1
                    /\ CurrentAn(doc, i) = NormalizedAn(DeclaredAn(doc, i))
              /\ \/ regex[DeclaredAn(doc, i).fi] = declared.regex[DeclaredAn(doc, i).fi]
                 \/ /\ DeclaredAn(doc, i).ref # "none"
                    /\ regex[DeclaredAn(doc, i).fi] = "none"

\* a call has rewritten an annotation and cleared a pattern, and has left a
\* pattern of a field without reference tag in place
C10_Witness ==
    /\ annotations # declared.ann
    /\ regex # declared.regex
    /\ \E fi \in FieldInfos : regex[fi] = "p"

----------------------------------------------------------------------------
(* Properties of merge_dicts *)

MergeExampleCase ==
    fn = "merge_dicts" /\ arg1 = EnumFragment /\ arg2 = TypedSchema

\* C4 as stated: merging the fragment {"properties": {"a": {"enum": [1,2]}}}
\* into {"properties": {"a": {"type": "integer"}, "b": {"type": "string"}}}
\* yields {"properties": {"a": {"enum": [1,2]}, "b": {"type": "string"}}}.
C4_FragmentReplacesProperty ==
    MergeExampleCase =>
        ret = MkDict(<<"properties">>,
                <<MkDict(<<"a", "b">>, <<MkDict(<<"enum">>, <<L12>>), Leaf>>)>>)

\* C4 amended: the same merge yields
\* {"properties": {"a": {"type": "integer", "enum": [1,2]}, "b": {"type": "string"}}}:
\* property "a" is merged key by key, keeping the generated "type" and gaining
\* the fragment's "enum"; the sibling "b" is preserved.
C4_FragmentMergedIntoProperty ==
    MergeExampleCase =>
        ret = MkDict(<<"properties">>,
                <<MkDict(<<"a", "b">>,
                    <<MkDict(<<"type", "enum">>, <<JStr(<<"integer">>), L12>>),
                      Leaf>>)>>)

C4_Witness == MergeExampleCase /\ Has(Get(Get(ret, "properties"), "a"), "enum")

\* C5: merge policy per key of merge_dicts(fragment, generated): a key of only
\* one input keeps that input's value; two dicts merge recursively; two lists
\* give the fragment's list followed by the generated one; values of
\* mismatched types give the fragment's value; no key is lost.
C5_MergePolicy ==
    fn = "merge_dicts" =>
        /\ KeySet(ret) = KeySet(arg1) \cup KeySet(arg2)
        /\ \A key \in KeySet(ret) :
             LET v1 == Get(arg1, key)
                 v2 == Get(arg2, key)
                 r  == Get(ret, key)
             IN /\ (Has(arg1, key) /\ ~Has(arg2, key)) => r = v1
                /\ (~Has(arg1, key) /\ Has(arg2, key)) => r = v2
                /\ (Has(arg1, key) /\ Has(arg2, key)) =>
                     /\ (v1.t = "dict" /\ v2.t = "dict") => r = merge_dicts(v1, v2)
                     /\ (v1.t = "list" /\ v2.t = "list") =>
                            (r.t = "list" /\ r.c = v1.c \o v2.c)
                     /\ (v1.t # v2.t) => r = v1

\* C6: for a key of both inputs whose values have the same type and are
\* neither dicts nor lists, merge_dicts(dict1, dict2) returns dict1's value
\* (the docstring example: "x3": 1 and "x3": 0 give "x3": 1).
C6_SameTypeScalarFromDict1 ==
    fn = "merge_dicts" =>
        \A key \in KeySet(arg1) \cap KeySet(arg2) :
            LET v1 == Get(arg1, key)
                v2 == Get(arg2, key)
            IN (v1.t = v2.t /\ v1.t \notin {"dict", "list"}) => Get(ret, key) = v1

----------------------------------------------------------------------------
(* Properties of strip_newline_literal *)

RECURSIVE HasNewlineDescription(_)
\* some "description" string, at any depth, through dicts and lists, holds a
\* line break
HasNewlineDescription(val) ==
    \E i \in 1..Len(val.c) :
        \/ /\ val.t = "dict"
           /\ val.c[i].k = "description"
           /\ val.c[i].v.t = "str"
           /\ \E j \in 1..Len(val.c[i].v.a) : val.c[i].v.a[j] = "NL"
        \/ HasNewlineDescription(val.c[i].v)

RECURSIVE AllDescriptionsStripped(_)
\* val with every line break of every "description" string replaced by a space
AllDescriptionsStripped(val) ==
    [val EXCEPT !.c = [i \in 1..Len(val.c) |->
        IF val.t = "dict" /\ val.c[i].k = "description" /\ val.c[i].v.t = "str"
        THEN KV(val.c[i].k, JStr(ReplaceNewline(val.c[i].v.a)))
        ELSE KV(val.c[i].k, AllDescriptionsStripped(val.c[i].v))]]

\* C7: after strip_newline_literal no "description" value at any depth,
\* including inside list-valued entries, contains a line break; each line
\* break has been replaced by a single space.
C7_NoNewlineInAnyDescription ==
    fn = "strip_newline_literal" =>
        /\ ~HasNewlineDescription(ret)
        /\ ret = AllDescriptionsStripped(arg1)

----------------------------------------------------------------------------
(* Properties of sort_jsonschema *)

IsSortedKeys(d) ==
    \A i \in 1..Len(d.c), j \in 1..Len(d.c) : i < j => Rank(d.c[i].k) < Rank(d.c[j].k)

RECURSIVE AllPropertiesSorted(_)
\* every "properties" mapping, at any depth, has its keys in alphabetical order
AllPropertiesSorted(val) ==
    \A i \in 1..Len(val.c) :
        /\ (val.c[i].k = "properties" /\ val.c[i].v.t = "dict")
               => IsSortedKeys(val.c[i].v)
        /\ AllPropertiesSorted(val.c[i].v)

RECURSIVE OtherMappingsKept(_, _, _)
\* out has the keys and scalar values of inp, and every mapping that is not
\* the value of a "properties" key has its keys in the same order
OtherMappingsKept(inp, out, isProperties) ==
    /\ out.t = inp.t
    /\ KeySet(out) = KeySet(inp) /\ Len(out.c) = Len(inp.c)
    /\ ~isProperties => Keys(out) = Keys(inp)
    /\ \A key \in KeySet(inp) :
          IF Get(inp, key).t = "dict"
          THEN OtherMappingsKept(Get(inp, key), Get(out, key), key = "properties")
          ELSE Get(out, key) = Get(inp, key)

\* C8: sort_jsonschema reorders every "properties" mapping's keys
\* alphabetically at any nesting depth, including a "properties" mapping nested
\* inside a property of another "properties" mapping, and leaves every other
\* mapping's key order untouched.
C8_EveryPropertiesSorted ==
    fn = "sort_jsonschema" =>
        /\ AllPropertiesSorted(ret)
        /\ OtherMappingsKept(arg1, ret, FALSE)

----------------------------------------------------------------------------
(* The memoization cache across top-level calls *)

\* C11: every top-level generation call made without a cache argument begins
\* with an empty memoization cache, and no lookup of it finds (to reuse it or
\* to compare a type with it) an entry that an earlier top-level call created.
C11_FreshCachePerCall ==
    last.op # "none" => last.stale = {} /\ last.observed = {}

====
